---- MODULE Spec2Model ----
(***************************************************************************)
(* A model of derive.rs: the slippy-map projection (slippy.rs), the two    *)
(* accumulation grids (heat.rs), the per-activity projection               *)
(* (activity.rs, strava.rs), the pipeline loop (main.rs) and the tile      *)
(* cache (osmbase.rs).                                                     *)
(*                                                                         *)
(* Floating point.  An f64 is modelled as a binary floating-point number   *)
(* with round-to-nearest-even and a significand of Precision bits (f64     *)
(* has 53).  A value is kept as an integer count of Unit = 2^Precision     *)
(* parts of 1.0, and every operation computes the exact result and rounds  *)
(* it to Precision significant bits (Fl).  Longitudes are degrees.  The    *)
(* Mercator functions of the latitude (tan, asinh, sinh, atan) are not     *)
(* computed: a latitude is kept as its Mercator ordinate, Unit / 2 at the  *)
(* north end of the map, 0 at the equator, so that the y axis of tile      *)
(* space is n * (Unit / 2 - lat), exactly; comparisons of latitudes are    *)
(* preserved, the function being increasing.  The model stays in the       *)
(* north-east quarter of the world, where these values need no more bits  *)
(* than the model's integers have.                                         *)
(***************************************************************************)
EXTENDS Integers, Sequences, FiniteSets, TLC

\* slippy.rs:4
TILE_SIZE == 256

(* A u32 is kept as the integer congruent to it modulo 2^32 that lies in   *)
(* -2^31 .. 2^31 - 1 (the model checker's integers have 32 bits), so -1    *)
(* stands for u32::MAX = 4294967295.  The operators below are the u32      *)
(* operations on these representatives.                                    *)
U32Max == -1

\* wrapping subtraction: no value of the model comes near 2^31
U32WrappingSub(a, b) == a - b

\* a <= b as unsigned numbers
U32Le(a, b) == IF (a < 0) = (b < 0) THEN a <= b ELSE a >= 0

U32MaxOf(a, b) == IF U32Le(a, b) THEN b ELSE a

\* The bits of a significand.
Precision == 16

\* The zoom level of the viewport (--zoom).
Zoom == 1

RECURSIVE Pow2(_)
Pow2(k) == IF k = 0 THEN 1 ELSE 2 * Pow2(k - 1)

\* 1.0
Unit == Pow2(Precision)

RECURSIVE BitLen(_)
BitLen(v) == IF v = 0 THEN 0 ELSE 1 + BitLen(v \div 2)

Abs(v) == IF v < 0 THEN -v ELSE v

\* The distance of the floating-point numbers around v.
Ulp(v) ==
    IF BitLen(Abs(v)) <= Precision THEN 1 ELSE Pow2(BitLen(Abs(v)) - Precision)

\* The one element of a set {v}: the value v, computed once.
The(S) == CHOOSE v \in S : TRUE

\* a / den rounded to a multiple of step, ties to even, for a >= 0
RoundTo(a, den, step) ==
    LET m == a \div (den * step)
        r == a - m * (den * step)
    IN  IF (2 * r > den * step) \/ (2 * r = den * step /\ m % 2 = 1)
        THEN (m + 1) * step
        ELSE m * step

\* The floating-point number nearest to num / den, ties to even.
Fl(num, den) ==
    The({IF n < 0 THEN -RoundTo(-n, den, Ulp((-n) \div den))
                  ELSE RoundTo(n, den, Ulp(n \div den)) : n \in {num}})

\* f64 addition, subtraction, and multiplication and division by a number k
\* that is an integer (180, 360, TILE_SIZE, 2^zoom, 2)
FAdd(a, b) == Fl(a + b, 1)

FSub(a, b) == Fl(a - b, 1)

FMulInt(a, k) == Fl(a * k, 1)

FDivInt(a, k) == Fl(a, k)

\* `n as f64` of an integer
F64(k) == k * Unit

None == [some |-> FALSE]

Some(v) == [some |-> TRUE, v |-> v]

Pt(x, y) == [x |-> x, y |-> y]

MinOf(a, b) == IF a <= b THEN a ELSE b

MaxOf(a, b) == IF a >= b THEN a ELSE b

\* Rect::new normalises its corners.
RectNew(c1, c2) ==
    [min |-> Pt(MinOf(c1.x, c2.x), MinOf(c1.y, c2.y)),
     max |-> Pt(MaxOf(c1.x, c2.x), MaxOf(c1.y, c2.y))]

\* f64::floor and f64::ceil, as integers
Floor(t) == t \div Unit

Ceil(t) == -((-t) \div Unit)

\* `f as u32`: truncation toward zero, negative values saturating at 0 (no
\* value of the model comes near u32::MAX)
AsU32(f) ==
    IF f < 0 THEN 0 ELSE f \div Unit

----------------------------------------------------------------------------
(* slippy.rs *)

\* x = n * ((lon + 180) / 360); y = n * (1 - asinh(tan(lat)) / pi) * 0.5, the
\* Mercator ordinate taken as given.
to_tile(p, zoom) ==
    Pt(FMulInt(FDivInt(FAdd(p.x, F64(180)), 360), Pow2(zoom)),
       FMulInt(Unit \div 2 - p.y, Pow2(zoom)))

\* x = t / n * 360 - 180; y = atan(sinh(pi * (1 - 2 / n * t))), the Mercator
\* ordinate of that latitude.
from_tile(t, zoom) ==
    Pt(FSub(FMulInt(FDivInt(t.x, Pow2(zoom)), 360), F64(180)),
       Unit \div 2 - FDivInt(t.y, Pow2(zoom)))

MapFrom(center_x, center_y, width, height, zoom) ==
    LET ext    == Pt(FDivInt(F64(width), TILE_SIZE), FDivInt(F64(height), TILE_SIZE))
        half   == Pt(FDivInt(ext.x, 2), FDivInt(ext.y, 2))
        center == to_tile(Pt(center_x, center_y), zoom)
        tiled  == RectNew(Pt(FAdd(center.x, half.x), FAdd(center.y, half.y)),
                          Pt(FSub(center.x, half.x), FSub(center.y, half.y)))
    IN  [extends_tiled |-> tiled,
         extends_coord |-> RectNew(from_tile(tiled.min, zoom), from_tile(tiled.max, zoom)),
         size |-> Pt(width, height),
         zoom |-> zoom]

pixel_size(m) == m.size

\* A mutant: the boundary belongs to the rectangle.
RectContainsInclusive(r, c) ==
    /\ c.x >= r.min.x /\ c.x <= r.max.x
    /\ c.y >= r.min.y /\ c.y <= r.max.y

\* geo's Contains<Point> for Rect: the interior only.
RectContains(r, c) ==
    /\ c.x > r.min.x /\ c.x < r.max.x
    /\ c.y > r.min.y /\ c.y < r.max.y

to_pixels(m, coord) ==
    IF ~RectContains(m.extends_coord, coord)
    THEN None
    ELSE LET t == to_tile(coord, m.zoom)
         IN  Some(Pt(AsU32(FMulInt(FSub(t.x, m.extends_tiled.min.x), TILE_SIZE)),
                     AsU32(FMulInt(FSub(t.y, m.extends_tiled.min.y), TILE_SIZE))))

----------------------------------------------------------------------------
(* heat.rs *)

\* The zoom level of the tile-resolution grid: its tiles are two pixels wide.
HeatZoom == Zoom + 7

Zeros(size) == [i \in 0 .. size - 1 |-> 0]

PixelHeatmapFrom(m) ==
    [kind      |-> "pixel",
     map       |-> m,
     heatmap   |-> Zeros(pixel_size(m).x * pixel_size(m).y),
     height    |-> pixel_size(m).y,
     width     |-> pixel_size(m).x,
     min       |-> Pt(0, 0),
     max       |-> Pt(pixel_size(m).x, pixel_size(m).y),
     max_value |-> 0,
     zoom      |-> m.zoom]

TileHeatmapFrom(m, zoom) ==
    LET raw_min == to_tile(m.extends_coord.min, zoom)
        raw_max == to_tile(m.extends_coord.max, zoom)
        min     == Pt(raw_min.x, raw_max.y)
        max     == Pt(raw_max.x, raw_min.y)
        width   == Ceil(max.x) - Floor(min.x)
        height  == Ceil(max.y) - Floor(min.y)
    IN  [kind      |-> "tile",
         map       |-> m,
         heatmap   |-> Zeros(width * height),
         height    |-> height,
         width     |-> width,
         min       |-> Pt(Floor(min.x), Floor(min.y)),
         max       |-> Pt(Ceil(max.x), Ceil(max.y)),
         max_value |-> 0,
         zoom      |-> zoom]

\* A mutant: the bounds test off by one.
GetPixelMutOffByOne(h, point) ==
    IF point.x > h.width \/ point.y > h.height
    THEN None
    ELSE Some(point.x + point.y * h.width)

\* The index of the counter of a pixel, None outside the grid.
get_pixel_mut(h, point) ==
    IF point.x >= h.width \/ point.y >= h.height
    THEN None
    ELSE Some(point.x + point.y * h.width)

\* The index of the counter of a tile, None outside the grid.
get_tile_mut(h, point) ==
    IF /\ h.min.x <= point.x
       /\ point.x < h.max.x
       /\ h.min.y <= point.y
       /\ point.y < h.max.y
    THEN Some((point.x - h.min.x) + (point.y - h.min.y) * h.width)
    ELSE None

GetCellMut(h, point) ==
    IF h.kind = "tile" THEN get_tile_mut(h, point) ELSE get_pixel_mut(h, point)

\* A mutant: max_value follows the counter just written.
NewMaxLast(max_value, px) == px

\* self.max_value.max(px)
NewMax(max_value, px) == U32MaxOf(max_value, px)

\* A mutant: add_point that counts a point twice.
AddPointTwice(h, point) ==
    LET r == GetCellMut(h, point)
    IN  IF ~r.some \/ r.v >= (h.width * h.height)
        THEN [ok |-> FALSE, heat |-> h]
        ELSE LET px == h.heatmap[r.v] + 2
             IN  [ok   |-> TRUE,
                  heat |-> [h EXCEPT !.heatmap[r.v] = px,
                                     !.max_value = NewMax(h.max_value, px)]]

\* add_point: unwrap() of None panics, and so does an index past the vector;
\* ok = FALSE is the panic, which leaves the grid as it was.
AddPoint(h, point) ==
    LET r == GetCellMut(h, point)
    IN  IF ~r.some \/ r.v >= (h.width * h.height)
        THEN [ok |-> FALSE, heat |-> h]
        ELSE LET px == h.heatmap[r.v] + 1
             IN  [ok   |-> TRUE,
                  heat |-> [h EXCEPT !.heatmap[r.v] = px,
                                     !.max_value = NewMax(h.max_value, px)]]

\* A mutant: decay that floors small counters to zero.
DecayCounterFloor(px, amount) ==
    IF px > amount THEN px - amount ELSE 0

\* if *px > amount { *px -= amount; }
DecayCounter(px, amount) ==
    IF px > amount THEN px - amount ELSE px

\* decay: `self.max_value -= 1` comes first.  At max_value = 0 the
\* subtraction overflows: a build with overflow checks (debug) panics there,
\* a build without them (release) wraps around.
Decay(h, amount, checks) ==
    IF h.max_value = 0 /\ checks
    THEN [ok |-> FALSE, heat |-> h]
    ELSE [ok   |-> TRUE,
          heat |-> [h EXCEPT !.max_value = U32WrappingSub(h.max_value, 1),
                             !.heatmap = [i \in DOMAIN h.heatmap |->
                                             DecayCounter(h.heatmap[i], amount)]]]

\* as_image, through &self: one sample for every counter, clear for a
\* counter of 0 and a shade of red for any other.
as_image(h) ==
    [i \in DOMAIN h.heatmap |-> IF h.heatmap[i] = 0 THEN "clear" ELSE "red"]

\* TileHeatmap::project_to_screen
TileProjectToScreen(h, coord) ==
    LET raw_mapped == to_tile(coord, h.zoom)
        x == AsU32(raw_mapped.x)
        y == AsU32(raw_mapped.y)
    IN  IF h.min.x <= x /\ x < h.max.x /\ h.min.y <= y /\ y < h.max.y
        THEN Some(Pt(x, y))
        ELSE None

\* Heatmap::from of main.rs: the grid of the program's own loop, between the
\* corners tl (north-west) and br (south-east), given as (lng, lat).
MainHeatmapFrom(tl, br, width, height) ==
    [kind      |-> "main",
     top_left  |-> tl,
     bot_right |-> br,
     heatmap   |-> Zeros(width * height),
     height    |-> height,
     width     |-> width,
     min       |-> Pt(0, 0),
     max       |-> Pt(width, height),
     max_value |-> 0]

\* (num / den) as u32 of a quotient that is not negative
TruncDiv(num, den) == IF den < 0 THEN (-num) \div (-den) ELSE num \div den

\* Heatmap::project_to_screen of main.rs, the equirectangular projection
\* x = (top_left.lng - coord.lng) * (1 / (top_left.lng - bot_right.lng)) * width
\* and the same in y. Coordinates are whole numbers here and the quotient is
\* the exact one: the model feeds this grid the middles of pixels only, which
\* rounding does not move to another pixel.
MainProjectToScreen(h, coord) ==
    LET xn == (h.top_left.x - coord.x) * h.width
        xd == h.top_left.x - h.bot_right.x
        yn == (h.top_left.y - coord.y) * h.height
        yd == h.top_left.y - h.bot_right.y
        xneg == (xn < 0 /\ xd > 0) \/ (xn > 0 /\ xd < 0)
        yneg == (yn < 0 /\ yd > 0) \/ (yn > 0 /\ yd < 0)
    IN  IF (xneg \/ TruncDiv(xn, xd) >= h.width) \/ (yneg \/ TruncDiv(yn, yd) >= h.height)
        THEN None
        ELSE Some(Pt(TruncDiv(xn, xd), TruncDiv(yn, yd)))

\* project_to_screen of any grid
ProjectToScreen(h, coord) ==
    CASE h.kind = "pixel" -> to_pixels(h.map, coord)
      [] h.kind = "tile"  -> TileProjectToScreen(h, coord)
      [] h.kind = "main"  -> MainProjectToScreen(h, coord)

----------------------------------------------------------------------------
(* activity.rs *)

\* track_points.iter().filter_map(|pt| heatmap.project_to_screen(pt)).collect()
RECURSIVE FilterMapProject(_, _)
FilterMapProject(h, pts) ==
    IF pts = <<>> THEN <<>>
    ELSE LET c == ProjectToScreen(h, Head(pts))
         IN  (IF c.some THEN <<c.v>> ELSE <<>>) \o FilterMapProject(h, Tail(pts))

\* A mutant: no deduplication at all.
DedupNothing(s) == s

\* A mutant: of all equal elements, adjacent or not, the first is kept.
RECURSIVE DedupAll(_)
DedupAll(s) ==
    IF s = <<>> THEN <<>>
    ELSE LET front == SubSeq(s, 1, Len(s) - 1)
         IN  IF \E i \in DOMAIN front : front[i] = s[Len(s)]
             THEN DedupAll(front)
             ELSE DedupAll(front) \o <<s[Len(s)]>>

\* Vec::dedup: of every run of consecutive equal elements the first is kept.
RECURSIVE Dedup(_)
Dedup(s) ==
    IF Len(s) <= 1 THEN s
    ELSE IF Head(s) = Head(Tail(s))
         THEN Dedup(Tail(s))
         ELSE <<Head(s)>> \o Dedup(Tail(s))

\* Activity::project_to_screen: Err is None, Ok(ScreenActivity) is Some.
ActivityProjectToScreen(act, h) ==
    The({IF track_points = <<>>
         THEN None
         ELSE Some([name |-> act.name, date |-> act.date, track_points |-> track_points]) :
            track_points \in {Dedup(projected) :
                                 projected \in {FilterMapProject(h, act.track_points)}}})

----------------------------------------------------------------------------
(* strava.rs, main.rs: the list of activities *)

\* A mutant: the list keeps the order of the directory.
InsertAtEnd(sorted, a) == sorted \o <<a>>

\* A sorted list with one more activity, put behind those of the same date.
InsertByDate(sorted, a) ==
    LET k == Cardinality({i \in DOMAIN sorted : sorted[i].date <= a.date})
    IN  SubSeq(sorted, 1, k) \o <<a>> \o SubSeq(sorted, k + 1, Len(sorted))

\* activities.sort_by_key(|a| a.date): a stable sort
RECURSIVE SortByDate(_)
SortByDate(acts) ==
    IF acts = <<>> THEN <<>>
    ELSE InsertByDate(SortByDate(SubSeq(acts, 1, Len(acts) - 1)), acts[Len(acts)])

\* filter_map(|a| a.project_to_screen(map).ok()): the activities with a
\* visible point, as screen activities, in their order
RECURSIVE FilterMapActivities(_, _)
FilterMapActivities(acts, h) ==
    IF acts = <<>> THEN <<>>
    ELSE The({(IF r.some THEN <<r.v>> ELSE <<>>) \o FilterMapActivities(Tail(acts), h) :
                 r \in {ActivityProjectToScreen(Head(acts), h)}})

\* DataExport::parse: every file parses here
DataExportParse(acts, h) == SortByDate(FilterMapActivities(acts, h))

----------------------------------------------------------------------------
(* State *)

VARIABLES
    heat,       \* the accumulation grid (PixelHeatmap or TileHeatmap)
    panicked,   \* the process has panicked: nothing runs after that
    checks,     \* the build checks integer overflow (debug) or not (release)
    last,       \* the last grid operation, its argument and the grid before it
    adds,       \* add_point calls so far
    decays      \* decay calls so far

gridVars == <<heat, panicked, checks, last, adds, decays>>

VARIABLES
    activity,   \* an Activity, as RawActivity::parse returned it
    screen,     \* what Activity::project_to_screen returned for it
    probe       \* one geographic point and what became of it

projVars == <<activity, screen, probe>>

Unset == [st |-> "unset"]

ProjIdle == activity = Unset /\ screen = Unset /\ probe = Unset

VARIABLES
    pipe        \* the run of the program over a directory of activities

runVars == <<pipe>>

RunIdle == pipe = Unset

VARIABLES
    files,      \* the cache directory: for every cache path, the file there
    dl,         \* the calls of Downloader::get in progress, one per process
    hist        \* what the calls so far did and returned, for every path

cacheVars == <<files, dl, hist>>

CacheIdle == files = Unset /\ dl = Unset /\ hist = Unset

vars == <<gridVars, projVars, runVars, cacheVars>>

\* A geographic point of pixel c of viewport m: k quarters of the pixel right
\* of and below its top left corner.
GeoOfCell(m, c, k) ==
    LET e == m.extends_coord
    IN  Pt(Fl(e.min.x * 4 * m.size.x + (4 * c.x + k) * (e.max.x - e.min.x), 4 * m.size.x),
           e.max.y - ((4 * c.y + k) * (e.max.y - e.min.y)) \div (4 * m.size.y))

----------------------------------------------------------------------------
(* The grid under arbitrary calls of add_point and decay *)

MaxAdds == 7

MaxDecays == 2

MaxAmount == 2

\* A viewport center (--lon, --lat): 19.6875 degrees east, and the latitude
\* whose Mercator ordinate is 11/32.
CenterLon == (315 * Unit) \div 16

CenterLat == (11 * Unit) \div 32

\* The viewport of the grid specification: 2 x 2 pixels (pixel grid), and
\* 4 x 4 pixels covered by 2 x 2 tiles (tile grid).
GridMap(kind) ==
    IF kind = "pixel"
    THEN MapFrom(CenterLon, CenterLat, 2, 2, Zoom)
    ELSE MapFrom(CenterLon, CenterLat, 4, 4, Zoom)

HeatmapFrom(kind) ==
    IF kind = "pixel"
    THEN PixelHeatmapFrom(GridMap(kind))
    ELSE TileHeatmapFrom(GridMap(kind), HeatZoom)

\* Coord<u32> arguments of add_point: every cell of the grid and the cells
\* one step outside it.
CallCells(h) ==
    {Pt(x, y) : x \in MaxOf(h.min.x - 1, 0) .. h.max.x,
                y \in MaxOf(h.min.y - 1, 0) .. h.max.y}

InGrid(h, point) ==
    /\ h.min.x <= point.x /\ point.x < h.max.x
    /\ h.min.y <= point.y /\ point.y < h.max.y

GridInit ==
    /\ \E kind \in {"pixel", "tile"} : heat = HeatmapFrom(kind)
    /\ panicked = FALSE
    /\ checks \in BOOLEAN
    /\ last = [op |-> "from", arg |-> 0, pre |-> heat]
    /\ adds = 0
    /\ decays = 0
    /\ ProjIdle
    /\ RunIdle
    /\ CacheIdle

GridAddPoint(point) ==
    /\ ~panicked
    /\ adds < MaxAdds
    /\ LET r == AddPoint(heat, point)
       IN  /\ heat' = r.heat
           /\ panicked' = ~r.ok
    /\ last' = [op |-> "add_point", arg |-> point, pre |-> heat]
    /\ adds' = adds + 1
    /\ UNCHANGED <<checks, decays, projVars, runVars, cacheVars>>

GridDecay(amount) ==
    /\ ~panicked
    /\ decays < MaxDecays
    /\ LET r == Decay(heat, amount, checks)
       IN  /\ heat' = r.heat
           /\ panicked' = ~r.ok
    /\ last' = [op |-> "decay", arg |-> amount, pre |-> heat]
    /\ decays' = decays + 1
    /\ UNCHANGED <<checks, adds, projVars, runVars, cacheVars>>

GridNext ==
    \/ \E point \in CallCells(heat) : GridAddPoint(point)
    \/ \E amount \in 0 .. MaxAmount : GridDecay(amount)

SpecGrid == GridInit /\ [][GridNext]_vars

----------------------------------------------------------------------------
(* Claims about the grid *)

Counters(h) == {h.heatmap[i] : i \in DOMAIN h.heatmap}

\* The largest counter of a grid (0 for a grid without cells).
LargestCounter(h) ==
    IF Counters(h) = {} THEN 0
    ELSE CHOOSE c \in Counters(h) : \A d \in Counters(h) : d <= c

\* C2: as long as decay was never called, max_value is the largest counter of
\* the grid (0 on a fresh grid, 1 after calls on distinct cells, 5 after five
\* calls on one cell and two on another).
C2_MaxValueIsLargestCounter ==
    decays = 0 => heat.max_value = LargestCounter(heat)

\* C2, its case: one cell received five calls, another two, and no decay.
C2_Witness ==
    /\ decays = 0
    /\ \E i, j \in DOMAIN heat.heatmap :
          heat.heatmap[i] = 5 /\ heat.heatmap[j] = 2
    /\ heat.max_value = 5

\* The counters of the decay example of the specification.
DecayExample == <<0, 1, 2, 3, 10>>

\* C4: a completed decay(amount) turns every counter c > amount into
\* c - amount and leaves every counter c <= amount as it was; no counter is
\* ever negative; decay(2) of [0,1,2,3,10] is [0,1,2,1,8].
C4_DecaySubtractsAboveAmount ==
    /\ \A i \in DOMAIN heat.heatmap : heat.heatmap[i] >= 0
    /\ (last.op = "decay" /\ ~panicked) =>
          \A i \in DOMAIN heat.heatmap :
             /\ last.pre.heatmap[i] > last.arg =>
                   heat.heatmap[i] = last.pre.heatmap[i] - last.arg
             /\ last.pre.heatmap[i] <= last.arg =>
                   heat.heatmap[i] = last.pre.heatmap[i]
    /\ [i \in 1 .. 5 |-> DecayCounter(DecayExample[i], 2)] = <<0, 1, 2, 1, 8>>

\* C4, its case: decay(2) met a counter of 3 and a counter of 1 or 2.
C4_Witness ==
    /\ last.op = "decay" /\ ~panicked /\ last.arg = 2
    /\ \E i, j \in DOMAIN heat.heatmap :
          /\ last.pre.heatmap[i] = 3 /\ heat.heatmap[i] = 1
          /\ last.pre.heatmap[j] \in {1, 2} /\ heat.heatmap[j] = last.pre.heatmap[j]

\* C5: every call of decay completes and leaves max_value exactly one less
\* than it was, as a u32.
C5_DecayDecrementsMaxValue ==
    last.op = "decay" =>
       /\ ~panicked
       /\ heat.max_value = U32WrappingSub(last.pre.max_value, 1)

\* C7: add_point on a cell outside the grid panics and changes neither a
\* counter nor max_value.
C7_OutOfBoundsIsFatal ==
    (last.op = "add_point" /\ ~InGrid(last.pre, last.arg)) =>
       /\ panicked
       /\ heat = last.pre

\* C7, its case: a grid that already counted points got a call outside it.
C7_Witness ==
    /\ last.op = "add_point" /\ ~InGrid(last.pre, last.arg)
    /\ last.pre.max_value >= 2
    /\ panicked

----------------------------------------------------------------------------
(* The grid under add_point, rendering and project_to_screen, without decay *)

RenderOps == {"as_image", "as_image_with_overlay"}

\* as_image and as_image_with_overlay take &self. They can panic: the
\* overlay of the pixel grid when the font is missing, the image of the
\* tile grid on the unwrap() of get_tile_offset and get_tile_size.
GridRender(op) ==
    /\ ~panicked
    /\ \E ok \in BOOLEAN :
          /\ ok \/ heat.kind = "tile" \/ op = "as_image_with_overlay"
          /\ panicked' = ~ok
          /\ last' = [op |-> op, arg |-> IF ok THEN as_image(heat) ELSE <<>>, pre |-> heat]
    /\ UNCHANGED <<heat, checks, adds, decays, projVars, runVars, cacheVars>>

\* Geographic points for project_to_screen: one on screen, one off screen.
GridPoints(h) ==
    {GeoOfCell(h.map, Pt(0, 0), 2), GeoOfCell(h.map, Pt(h.map.size.x + 1, 0), 2)}

\* project_to_screen takes &self.
GridProject(p) ==
    /\ ~panicked
    /\ last' = [op |-> "project_to_screen", arg |-> ProjectToScreen(heat, p), pre |-> heat]
    /\ UNCHANGED <<heat, panicked, checks, adds, decays, projVars, runVars, cacheVars>>

AccumulateNext ==
    \/ \E point \in CallCells(heat) : GridAddPoint(point)
    \/ \E op \in RenderOps : GridRender(op)
    \/ \E p \in GridPoints(heat) : GridProject(p)

SpecAccumulate == GridInit /\ [][AccumulateNext]_vars

\* The index of the counter of a cell of the grid.
IndexOf(h, point) == (point.x - h.min.x) + (point.y - h.min.y) * h.width

\* C17: without decay no counter ever goes down: add_point on a cell of the
\* grid adds 1 to the counter of that cell and leaves every other counter
\* as it was; as_image, as_image_with_overlay and project_to_screen leave
\* every counter and max_value as they were; a call that panics changes
\* nothing.
C17_CountersOnlyGrowByAddPoint ==
    /\ \A i \in DOMAIN heat.heatmap : heat.heatmap[i] >= last.pre.heatmap[i]
    /\ (last.op = "add_point" /\ ~panicked) =>
          /\ InGrid(last.pre, last.arg)
          /\ \A i \in DOMAIN heat.heatmap :
                heat.heatmap[i] = IF i = IndexOf(last.pre, last.arg)
                                  THEN last.pre.heatmap[i] + 1
                                  ELSE last.pre.heatmap[i]
    /\ (last.op \in RenderOps \cup {"project_to_screen"} \/ panicked) => heat = last.pre

\* C17, its case: add_point took a counter of 2 to 3 next to a counter of 1.
C17_Witness ==
    /\ last.op = "add_point" /\ ~panicked
    /\ last.pre.heatmap[IndexOf(last.pre, last.arg)] = 2
    /\ heat.heatmap[IndexOf(last.pre, last.arg)] = 3
    /\ \E i \in DOMAIN heat.heatmap : i # IndexOf(last.pre, last.arg) /\ heat.heatmap[i] = 1

\* C19: after any calls of add_point and decay every counter is at most
\* max_value (as u32), and max_value is at least 1 when a counter is not 0,
\* so that log(c + 1) / log(max_value + 1) is defined and at most 1.
C19_CountersAtMostMaxValue ==
    \A i \in DOMAIN heat.heatmap :
       /\ U32Le(heat.heatmap[i], heat.max_value)
       /\ heat.heatmap[i] # 0 => heat.max_value # 0

----------------------------------------------------------------------------
(* Activity::project_to_screen on one activity *)

MaxTrack == 5

\* The viewport of the activity specification: 4 x 4 pixels.
ActMap == MapFrom(CenterLon, CenterLat, 4, 4, Zoom)

\* Track points: two in pixel (1,1), one in pixel (2,1), one in pixel (3,3)
\* and one outside the viewport.
ActPoints ==
    {GeoOfCell(ActMap, Pt(1, 1), 1), GeoOfCell(ActMap, Pt(1, 1), 2),
     GeoOfCell(ActMap, Pt(2, 1), 2), GeoOfCell(ActMap, Pt(3, 3), 2),
     GeoOfCell(ActMap, Pt(9, 1), 2)}

\* The non-empty sequences over S of at most n elements.
SeqsUpTo(S, n) == UNION {[1 .. k -> S] : k \in 1 .. n}

ActInit ==
    /\ heat \in {PixelHeatmapFrom(ActMap), TileHeatmapFrom(ActMap, HeatZoom)}
    /\ panicked = FALSE
    /\ checks = FALSE
    /\ last = [op |-> "from", arg |-> 0, pre |-> heat]
    /\ adds = 0
    /\ decays = 0
    /\ \E pts \in SeqsUpTo(ActPoints, MaxTrack) :
          activity = [st |-> "parsed", name |-> "a", date |-> 1, track_points |-> pts]
    /\ screen = Unset
    /\ probe = Unset
    /\ RunIdle
    /\ CacheIdle

ActProject ==
    /\ screen = Unset
    /\ LET r == ActivityProjectToScreen(activity, heat)
       IN  screen' = IF r.some THEN [st |-> "ok", v |-> r.v] ELSE [st |-> "err"]
    /\ UNCHANGED <<gridVars, activity, probe, runVars, cacheVars>>

ActNext == ActProject

SpecActivity == ActInit /\ [][ActNext]_vars

\* The cells the track points of the activity project to, in order.
Projected == FilterMapProject(heat, activity.track_points)

\* The number of places of s that hold c.
Occurrences(c, s) == Cardinality({i \in DOMAIN s : s[i] = c})

\* The number of maximal runs of c in s.
Runs(c, s) == Cardinality({i \in DOMAIN s : s[i] = c /\ (i = 1 \/ s[i - 1] # c)})

Cells(s) == {s[i] : i \in DOMAIN s}

\* C1 as stated: the screen points of an activity hold every cell at most
\* once, wherever the repeats stood in the raw sequence.
C1_EachCellAtMostOnce ==
    screen.st = "ok" =>
       LET proj == Projected
       IN  \A c \in Cells(proj) : Occurrences(c, screen.v.track_points) = 1

\* C1 as amended: the screen points of an activity never hold the same cell
\* twice in a row; a cell stands in them once for every maximal run of
\* consecutive points projecting to it, so cells [A, A, B, A, C] give
\* [A, B, A, C].
C1_NoConsecutiveRepeat ==
    /\ screen.st = "ok" =>
          LET proj == Projected
              out  == screen.v.track_points
          IN  /\ \A i \in 1 .. Len(out) - 1 : out[i] # out[i + 1]
              /\ \A c \in Cells(proj) : Occurrences(c, out) = Runs(c, proj)
              /\ Cells(out) = Cells(proj)
    /\ Dedup(<<"A", "A", "B", "A", "C">>) = <<"A", "B", "A", "C">>

\* C1, its case: five visible points on cells A, A, B, A, C.
C1_Witness ==
    /\ screen.st = "ok"
    /\ Len(activity.track_points) = 5
    /\ LET proj == Projected
       IN  /\ Len(proj) = 5
           /\ proj[1] = proj[2] /\ proj[2] # proj[3]
           /\ proj[4] = proj[1]
           /\ proj[5] \notin {proj[1], proj[3]}
    /\ Len(screen.v.track_points) = 4

----------------------------------------------------------------------------
(* project_to_screen on single points, all around the viewport *)

\* Viewports are 1 .. MaxSide pixels wide and high.
MaxSide == 2

\* Floating-point numbers on either side of an extent that are probed.
Margin == 3

\* Centers (--lon, --lat) on a tile boundary of the heat grid and off it.
ProbeCenters ==
    {Pt(CenterLon + i * Ulp(CenterLon), CenterLat + j * Ulp(CenterLat)) :
        i \in {0, 1, 3}, j \in {0, 1}}

\* A center further east, 91 degrees, for viewports one zoom level deeper.
ProbeCenterEast == Pt(F64(91), CenterLat)

ProbeMaps ==
    {MapFrom(c.x, c.y, w, h, Zoom) : c \in ProbeCenters, w \in 1 .. MaxSide, h \in 1 .. MaxSide}
    \cup {MapFrom(ProbeCenterEast.x, ProbeCenterEast.y, w, h, Zoom + 1) :
             w \in 1 .. MaxSide, h \in 1 .. MaxSide}

\* The floating-point numbers at most Margin steps from v.
Around(v) == {v + k * Ulp(v) : k \in -Margin .. Margin}

\* Geographic points of viewport m: on each axis the two extents, the
\* floating-point numbers next to them on either side, and the middle of
\* every pixel.
ProbePoints(m) ==
    LET e == m.extends_coord
    IN  {Pt(x, y) :
            x \in Around(e.min.x) \cup Around(e.max.x)
                  \cup {GeoOfCell(m, Pt(c, 0), 2).x : c \in 0 .. m.size.x - 1},
            y \in Around(e.min.y) \cup Around(e.max.y)
                  \cup {GeoOfCell(m, Pt(0, c), 2).y : c \in 0 .. m.size.y - 1}}

\* A viewport, its grid, and the center the viewport was made from.
ProbeInit ==
    /\ \E m \in ProbeMaps, c \in ProbeCenters \cup {ProbeCenterEast} :
          /\ m = MapFrom(c.x, c.y, m.size.x, m.size.y, m.zoom)
          /\ heat \in {PixelHeatmapFrom(m),
                        TileHeatmapFrom(m, HeatZoom + (m.zoom - Zoom))}
          /\ last = [op |-> "from", arg |-> c, pre |-> heat]
    /\ panicked = FALSE
    /\ checks = FALSE
    /\ adds = 0
    /\ decays = 0
    /\ activity = Unset
    /\ screen = Unset
    /\ probe = Unset
    /\ RunIdle
    /\ CacheIdle

\* One point is projected and, when it is on screen, handed to add_point.
ProbePoint(p) ==
    /\ probe = Unset
    /\ ~panicked
    /\ LET c == ProjectToScreen(heat, p)
           r == AddPoint(heat, c.v)
       IN  /\ probe' = [st |-> "done", coord |-> p, cell |-> c,
                         center |-> last.arg, pixels |-> to_pixels(heat.map, p)]
           /\ IF c.some
              THEN /\ heat' = r.heat
                   /\ panicked' = ~r.ok
                   /\ last' = [op |-> "add_point", arg |-> c.v, pre |-> heat]
                   /\ adds' = adds + 1
              ELSE UNCHANGED <<heat, panicked, last, adds>>
    /\ UNCHANGED <<checks, decays, activity, screen, runVars, cacheVars>>

ProbeNext == \E p \in ProbePoints(heat.map) \cup {last.arg} : ProbePoint(p)

SpecProbe == ProbeInit /\ [][ProbeNext]_vars

\* C6: a cell that project_to_screen returns lies inside the grid (pixel
\* grid: x < width and y < height; tile grid: min <= cell < max), and
\* add_point on it does not panic but counts it; this covers the points on
\* the boundary of the viewport's geographic extents.
C6_ProjectedCellInGrid ==
    (probe # Unset /\ probe.cell.some) =>
       /\ InGrid(last.pre, probe.cell.v)
       /\ ~panicked
       /\ \E i \in DOMAIN heat.heatmap : heat.heatmap[i] = 1

\* A point strictly outside the geographic extents of viewport m.
StrictlyOutside(m, p) ==
    \/ p.x < m.extends_coord.min.x \/ p.x > m.extends_coord.max.x
    \/ p.y < m.extends_coord.min.y \/ p.y > m.extends_coord.max.y

\* (to_tile(p) - extends_tiled.min) * TILE_SIZE, the f64 pair of to_pixels
FloatCoord(m, p) ==
    LET t == to_tile(p, m.zoom)
    IN  Pt(FMulInt(FSub(t.x, m.extends_tiled.min.x), TILE_SIZE),
           FMulInt(FSub(t.y, m.extends_tiled.min.y), TILE_SIZE))

----------------------------------------------------------------------------
(* The run over a directory of activities: main.rs, and the same loop fed *)
(* by DataExport::parse                                                    *)

\* The points of the first activity, at most.
MaxPts == 3

\* The points of the second activity, at most.
MaxPtsB == 1

\* --width and --height of the run
PipeSide == 8

PipeMap == MapFrom(CenterLon, CenterLat, PipeSide, PipeSide, Zoom)

\* The corners of the grid of main.rs, as (lng, lat) in tenths of a degree.
MainTopLeft == Pt(0, 10 * PipeSide)

MainBotRight == Pt(10 * PipeSide, 0)

\* The grid a run starts with: "main" is main.rs as it is, "lib" the loop of
\* main.rs over what DataExport::parse returns for a PixelHeatmap.
PipeHeat(driver) ==
    IF driver = "main"
    THEN MainHeatmapFrom(MainTopLeft, MainBotRight, PipeSide, PipeSide)
    ELSE PixelHeatmapFrom(PipeMap)

\* The cells the track points of the runs are meant for: two on screen, one
\* off screen.
PipeCells == {Pt(5, 5), Pt(6, 6), Pt(PipeSide + 1, 1)}

\* The geographic point in the middle of cell c.
PipeGeo(driver, c) ==
    IF driver = "main"
    THEN Pt(MainTopLeft.x + 10 * c.x + 5, MainTopLeft.y - (10 * c.y + 5))
    ELSE GeoOfCell(PipeMap, c, 2)

Dates == {1, 2}

\* The activity of a file: its name, its date and its track points.
PipeActivity(driver, name, date, cells) ==
    [name |-> name, date |-> date,
     track_points |-> [i \in DOMAIN cells |-> PipeGeo(driver, cells[i])]]

\* --frame-rate, when it is not given
FrameRateDefault == 1500

\* --frame-rate of the runs with --ppm-stream, at most.
MaxRate == 2

\* A mutant: a frame only when the counter is the frame rate.
FrameDueOnce(counter, frame_rate) == counter = frame_rate

\* counter % args.flag_frame_rate == 0, for a frame rate that is not 0
FrameDue(counter, frame_rate) == counter % frame_rate = 0

\* The runs of the drivers, with or without --ppm-stream, at the frame
\* rates given.
PipeInitWith(drivers, streams, rates) ==
    /\ \E driver \in drivers, stream \in streams, frame_rate \in rates :
       \E ca \in SeqsUpTo(PipeCells, MaxPts), cb \in SeqsUpTo(PipeCells, MaxPtsB) :
       \E da \in Dates, db \in Dates :
          /\ heat = PipeHeat(driver)
          /\ pipe = [pc         |-> "start",
                     driver     |-> driver,
                     intent     |-> <<[name |-> "A", date |-> da, cells |-> ca],
                                      [name |-> "B", date |-> db, cells |-> cb]>>,
                     input      |-> <<PipeActivity(driver, "A", da, ca),
                                      PipeActivity(driver, "B", db, cb)>>,
                     activities |-> <<>>,
                     pixels     |-> <<>>,
                     counter    |-> 0,
                     stream     |-> stream,
                     frame_rate |-> frame_rate,
                     frames     |-> <<>>,
                     final      |-> FALSE,
                     act        |-> Unset,
                     fed        |-> <<>>,
                     by         |-> <<>>]
    /\ panicked = FALSE
    /\ checks = FALSE
    /\ last = [op |-> "from", arg |-> 0, pre |-> heat]
    /\ adds = 0
    /\ decays = 0
    /\ ProjIdle
    /\ CacheIdle

PipeInit == PipeInitWith({"main", "lib"}, {FALSE}, {FrameRateDefault})

\* The files are parsed and the activities sorted by date (main.rs:327-332;
\* DataExport::parse, which also projects them).
PipeStart ==
    /\ pipe.pc = "start"
    /\ pipe' = [pipe EXCEPT
                  !.pc = "loop",
                  !.activities = IF pipe.driver = "main"
                                 THEN SortByDate(pipe.input)
                                 ELSE DataExportParse(pipe.input, heat)]
    /\ UNCHANGED <<gridVars, projVars, cacheVars>>

\* for act in activities: the pixels of the next activity, counter = 0
PipeBeginActivity ==
    /\ pipe.pc = "loop" /\ ~panicked
    /\ pipe.pixels = <<>> /\ pipe.activities # <<>>
    /\ LET act == Head(pipe.activities)
       IN  pipe' = [pipe EXCEPT
                      !.activities = Tail(pipe.activities),
                      !.pixels = IF pipe.driver = "main"
                                 THEN FilterMapProject(heat, act.track_points)
                                 ELSE act.track_points,
                      !.counter = 0,
                      !.act = [name |-> act.name, date |-> act.date]]
    /\ UNCHANGED <<gridVars, projVars, cacheVars>>

\* for point in pixels: map.add_point(point); counter += 1; and with
\* --ppm-stream a frame when counter % frame_rate == 0. The remainder by a
\* frame rate of 0 panics, after add_point and the increment.
PipeAddPoint ==
    /\ pipe.pc = "loop" /\ ~panicked
    /\ pipe.pixels # <<>>
    /\ LET point   == Head(pipe.pixels)
           r       == AddPoint(heat, point)
           counter == pipe.counter + 1
           by_zero == r.ok /\ pipe.stream /\ pipe.frame_rate = 0
           frame   == r.ok /\ pipe.stream /\ pipe.frame_rate # 0
                           /\ FrameDue(counter, pipe.frame_rate)
       IN  /\ heat' = r.heat
           /\ panicked' = (~r.ok \/ by_zero)
           /\ last' = [op |-> "add_point", arg |-> point, pre |-> heat]
           /\ pipe' = [pipe EXCEPT
                         !.pixels = Tail(pipe.pixels),
                         !.counter = IF r.ok THEN counter ELSE pipe.counter,
                         !.frames = IF frame
                                    THEN Append(pipe.frames,
                                                [at      |-> Len(pipe.fed) + 1,
                                                 act     |-> pipe.act.name,
                                                 heatmap |-> r.heat.heatmap])
                                    ELSE pipe.frames,
                         !.fed = IF r.ok THEN Append(pipe.fed, point) ELSE pipe.fed,
                         !.by = IF r.ok THEN Append(pipe.by, pipe.act) ELSE pipe.by]
    /\ adds' = adds + 1
    /\ UNCHANGED <<checks, decays, projVars, cacheVars>>

\* The loop is over; with --ppm-stream the final frame is written.
PipeFinish ==
    /\ pipe.pc = "loop" /\ ~panicked
    /\ pipe.pixels = <<>> /\ pipe.activities = <<>>
    /\ pipe' = [pipe EXCEPT !.pc = "done", !.final = pipe.stream]
    /\ UNCHANGED <<gridVars, projVars, cacheVars>>

PipeNext ==
    \/ PipeStart
    \/ PipeBeginActivity
    \/ PipeAddPoint
    \/ PipeFinish

SpecPipeline == PipeInit /\ [][PipeNext]_vars

\* The runs of main.rs with --ppm-stream.
StreamInit == PipeInitWith({"main"}, {TRUE}, 0 .. MaxRate)

SpecStream == StreamInit /\ [][PipeNext]_vars

\* The cells of a track that are on screen, in the order of the track.
Visible(cells) == SelectSeq(cells, LAMBDA c : c.x < PipeSide /\ c.y < PipeSide)

\* The counter of cell c at the end of the run.
CounterOf(c) == heat.heatmap[c.x + c.y * heat.width]

GridCells == {Pt(x, y) : x \in 0 .. PipeSide - 1, y \in 0 .. PipeSide - 1}

\* The number of activities that have a point in cell c.
ActivitiesThrough(c) ==
    Cardinality({i \in DOMAIN pipe.intent : c \in Cells(Visible(pipe.intent[i].cells))})

\* The number of screen points in cell c that activity i hands to the loop:
\* with DataExport::parse one for every run of consecutive visible points in
\* c, in main.rs one for every visible point in c.
PointsFed(i, c) ==
    IF pipe.driver = "lib"
    THEN Runs(c, Visible(pipe.intent[i].cells))
    ELSE Occurrences(c, Visible(pipe.intent[i].cells))

TotalFed(c) == PointsFed(1, c) + PointsFed(2, c)

\* The run of the example: A = {(5,5),(5,5),(6,6)} at T1, B = {(5,5)} at T2.
IsExample ==
    /\ pipe.intent[1] = [name |-> "A", date |-> 1, cells |-> <<Pt(5, 5), Pt(5, 5), Pt(6, 6)>>]
    /\ pipe.intent[2] = [name |-> "B", date |-> 2, cells |-> <<Pt(5, 5)>>]

Kth(I, k) == CHOOSE i \in I : Cardinality({j \in I : j <= i}) = k

\* The cells handed to add_point for the activity of name n, in the order of
\* the calls.
FedBy(n) ==
    LET I == {i \in DOMAIN pipe.fed : pipe.by[i].name = n}
    IN  [k \in 1 .. Cardinality(I) |-> pipe.fed[Kth(I, k)]]

\* s is t with some of its elements left out.
IsSubSeq(s, t) ==
    \E f \in [DOMAIN s -> DOMAIN t] :
       /\ \A i \in DOMAIN s : t[f[i]] = s[i]
       /\ \A i, j \in DOMAIN s : i < j => f[i] < f[j]

\* C12: of two calls of add_point the earlier one is for an activity whose
\* date is not later than that of the other; the calls of one activity are
\* not interleaved with those of another, and their cells are cells of the
\* track points of the activity, in the order of the track points.
C12_AddPointInDateAndTrackOrder ==
    /\ \A i, j \in DOMAIN pipe.fed :
          i < j =>
             /\ pipe.by[i].date <= pipe.by[j].date
             /\ pipe.by[i].name = pipe.by[j].name =>
                   \A k \in i .. j : pipe.by[k].name = pipe.by[i].name
    /\ \A a \in DOMAIN pipe.input :
          IsSubSeq(FedBy(pipe.input[a].name),
                   FilterMapProject(heat, pipe.input[a].track_points))

\* C12, its case: the later file of the directory holds the earlier
\* activity; its point was counted first, and then two points of the other
\* activity, on different cells, in the order of its track.
C12_Witness ==
    /\ pipe.pc = "done"
    /\ pipe.intent[1].date = 2 /\ pipe.intent[2].date = 1
    /\ pipe.intent[1].cells = <<Pt(6, 6), Pt(PipeSide + 1, 1), Pt(5, 5)>>
    /\ pipe.by[1].name = "B"
    /\ FedBy("A") = <<Pt(6, 6), Pt(5, 5)>>
    /\ Len(pipe.fed) = 3

\* The number of add_point calls for the activity of call i, up to call i.
PosInActivity(i) ==
    Cardinality({j \in 1 .. i : pipe.by[j].name = pipe.by[i].name})

\* The add_point calls after which a frame is due: those that bring the
\* count of their activity to a multiple of the frame rate.
FrameCalls ==
    IF pipe.stream /\ pipe.frame_rate # 0
    THEN {i \in DOMAIN pipe.fed : PosInActivity(i) % pipe.frame_rate = 0}
    ELSE {}

FrameAts == {pipe.frames[k].at : k \in DOMAIN pipe.frames}

\* The frames that the activity of name n brings at the end of the run.
FramesOf(n) == Len(FedBy(n)) \div pipe.frame_rate

C14_ConfigErrorRejectedFirst ==
    pipe.frame_rate = 0 =>
       /\ pipe.pc = "start"
       /\ adds = 0
       /\ pipe.frames = <<>> /\ ~pipe.final

----------------------------------------------------------------------------
(* osmbase.rs: Downloader::get and the cache directory *)

\* Calls of get in one behaviour, at most.
MaxCalls == 3

\* Cache paths: the hash of the URL of a tile (zoom, x, y).
TileKeys == {"t1", "t2"}

\* A response body is written in two parts. A part of a file holds nothing,
\* bytes of a tile ("ok") or bytes of the body of an error response ("err").
Absent == [exists |-> FALSE, c1 |-> "none", c2 |-> "none"]

\* File::create: a new empty file, or the file there cut to length 0.
Created == [exists |-> TRUE, c1 |-> "none", c2 |-> "none"]

\* The file after part n was written with bytes b, through a handle that is
\* still the file of the path.
Written(f, n, b) == IF n = 1 THEN [f EXCEPT !.c1 = b] ELSE [f EXCEPT !.c2 = b]

\* The whole body of a successful response.
Complete(f) == f.exists /\ f.c1 = "ok" /\ f.c2 = "ok"

\* A mutant: remove_file that leaves the file.
RemovedKeeps(f) == f

\* remove_file(cached), when it succeeds
Removed(f) == Absent

NoResult == [kind |-> "none"]

\* A mutant: only a file with a whole tile in it is a cache hit.
CacheHitReadable(f) == f.exists /\ f.c1 = "ok" /\ f.c2 = "ok"

\* cached.exists()
CacheHit(f) == f.exists

IdleCall == [pc |-> "idle", key |-> "none", resp |-> "none", cut |-> 0, sent |-> 0,
             attached |-> FALSE, found |-> Absent, result |-> NoResult]

Successes == {"OkHit", "OkFetched"}

FetchFailures == {"ErrStatus", "ErrTransport"}

\* get returns: the call is over, and the history of the path has it.
Return(p, kind) ==
    /\ dl' = [dl EXCEPT ![p] = [IdleCall EXCEPT
                 !.result = [kind      |-> kind,
                             key       |-> dl[p].key,
                             after     |-> hist.last[dl[p].key],
                             resp      |-> dl[p].resp,
                             found     |-> dl[p].found,
                             requested |-> dl[p].resp # "none"]]]
    /\ hist' = [hist EXCEPT
                  !.last[dl[p].key] = kind,
                  !.succeeded[dl[p].key] = @ \/ kind \in Successes]

\* osmbase.rs:34-55: the path is computed; a file there is a cache hit.
FetchCheck(p, k) ==
    /\ dl[p].pc = "idle"
    /\ hist.calls < MaxCalls
    /\ IF CacheHit(files[k])
       THEN /\ dl' = [dl EXCEPT ![p] = [IdleCall EXCEPT
                        !.result = [kind |-> "OkHit", key |-> k,
                                    after |-> hist.last[k], resp |-> "none",
                                    found |-> files[k],
                                    requested |-> FALSE]]]
            /\ hist' = [hist EXCEPT !.calls = @ + 1,
                                    !.last[k] = "OkHit",
                                    !.succeeded[k] = TRUE]
       ELSE /\ dl' = [dl EXCEPT ![p] = [IdleCall EXCEPT !.pc = "mkdir", !.key = k,
                                                       !.found = files[k]]]
            /\ hist' = [hist EXCEPT !.calls = @ + 1]
    /\ UNCHANGED files
    /\ UNCHANGED <<gridVars, projVars, runVars>>

\* osmbase.rs:56-58: create_dir_all(p)?
FetchMkdir(p) ==
    /\ dl[p].pc = "mkdir"
    /\ \/ /\ dl' = [dl EXCEPT ![p].pc = "create"]
          /\ UNCHANGED hist
       \/ Return(p, "ErrMkdir")
    /\ UNCHANGED files
    /\ UNCHANGED <<gridVars, projVars, runVars>>

\* osmbase.rs:59-60: File::create(&cached)?, and Uri::try_from, which the
\* URL of the one pattern of the program always passes.
FetchCreate(p) ==
    /\ dl[p].pc = "create"
    /\ \/ /\ files' = [files EXCEPT ![dl[p].key] = Created]
          /\ dl' = [dl EXCEPT ![p].pc = "send", ![p].attached = TRUE]
          /\ UNCHANGED hist
       \/ /\ Return(p, "ErrCreate")
          /\ UNCHANGED files
    /\ UNCHANGED <<gridVars, projVars, runVars>>

\* osmbase.rs:61-63: the request goes out. The exchange will bring the body
\* of a success ("ok"), the body of an error status ("status"), or break
\* after `cut` parts of a body ("transport").
FetchSend(p) ==
    /\ dl[p].pc = "send"
    /\ \E resp \in {"ok", "status", "transport"} :
       \E cut \in (IF resp = "transport" THEN {0, 1} ELSE {2}) :
          dl' = [dl EXCEPT ![p].resp = resp,
                           ![p].cut = cut,
                           ![p].pc = IF cut = 0 THEN "remove" ELSE "recv"]
    /\ hist' = [hist EXCEPT !.requests[dl[p].key] = @ + 1]
    /\ UNCHANGED files
    /\ UNCHANGED <<gridVars, projVars, runVars>>

\* send(&mut writer): the next part of the body is written to the file;
\* after the last one the call returns Ok(cached) for a success status
\* (osmbase.rs:69-70) and goes on to remove the file otherwise.
FetchRecv(p) ==
    /\ dl[p].pc = "recv"
    /\ LET k    == dl[p].key
           n    == dl[p].sent + 1
           b    == IF dl[p].resp = "status" THEN "err" ELSE "ok"
       IN  /\ files' = IF dl[p].attached /\ files[k].exists
                       THEN [files EXCEPT ![k] = Written(files[k], n, b)]
                       ELSE files
           /\ IF n < dl[p].cut
              THEN /\ dl' = [dl EXCEPT ![p].sent = n]
                   /\ UNCHANGED hist
              ELSE IF dl[p].resp = "ok"
                   THEN Return(p, "OkFetched")
                   ELSE /\ dl' = [dl EXCEPT ![p].sent = n, ![p].pc = "remove"]
                        /\ UNCHANGED hist
    /\ UNCHANGED <<gridVars, projVars, runVars>>

\* osmbase.rs:66-68, 73-76: remove_file(cached)?; then the error of the
\* exchange is returned. remove_file fails when the file is gone, and can
\* fail when it is there; its error is returned then, and the file stays.
FetchRemove(p) ==
    /\ dl[p].pc = "remove"
    /\ LET k == dl[p].key
       IN  \/ /\ files[k].exists
              /\ files' = [files EXCEPT ![k] = Removed(files[k])]
              /\ dl' = [q \in DOMAIN dl |->
                          IF q = p
                          THEN [IdleCall EXCEPT
                                  !.result = [kind      |-> IF dl[p].resp = "status"
                                                            THEN "ErrStatus"
                                                            ELSE "ErrTransport",
                                              key       |-> k,
                                              after     |-> hist.last[k],
                                              resp      |-> dl[p].resp,
                                              found     |-> dl[p].found,
                                              requested |-> TRUE]]
                          ELSE IF dl[q].key = k /\ files'[k] = Absent
                               THEN [dl[q] EXCEPT !.attached = FALSE]
                               ELSE dl[q]]
              /\ hist' = [hist EXCEPT !.last[k] = IF dl[p].resp = "status"
                                                  THEN "ErrStatus"
                                                  ELSE "ErrTransport"]
           \/ /\ Return(p, "ErrRemove")
              /\ UNCHANGED files
    /\ UNCHANGED <<gridVars, projVars, runVars>>

FetchInitWith(procs, keys) ==
    /\ files = [k \in keys |-> Absent]
    /\ dl = [p \in procs |-> IdleCall]
    /\ hist = [calls     |-> 0,
               requests  |-> [k \in keys |-> 0],
               last      |-> [k \in keys |-> "none"],
               succeeded |-> [k \in keys |-> FALSE]]
    /\ heat = Unset
    /\ panicked = FALSE
    /\ checks = FALSE
    /\ last = Unset
    /\ adds = 0
    /\ decays = 0
    /\ ProjIdle
    /\ RunIdle

FetchNext ==
    \/ \E p \in DOMAIN dl, k \in DOMAIN files : FetchCheck(p, k)
    \/ \E p \in DOMAIN dl : FetchMkdir(p)
    \/ \E p \in DOMAIN dl : FetchCreate(p)
    \/ \E p \in DOMAIN dl : FetchSend(p)
    \/ \E p \in DOMAIN dl : FetchRecv(p)
    \/ \E p \in DOMAIN dl : FetchRemove(p)

\* One run of the program: its calls of get come one after the other
\* (Basemap::draw, osmbase.rs:153-155).
FetchInit == FetchInitWith({1}, TileKeys)

SpecFetch == FetchInit /\ [][FetchNext]_vars

\* Two runs of the program at the same time, on the same cache directory
\* and the same tile.
RaceInit == FetchInitWith({1, 2}, {"t1"})

SpecRace == RaceInit /\ [][FetchNext]_vars

Errors == {"ErrMkdir", "ErrCreate", "ErrStatus", "ErrTransport", "ErrRemove"}

C9_NoFileWithoutSuccess ==
    /\ \A p \in DOMAIN dl :
          dl[p].result.kind \in Errors =>
             (files[dl[p].result.key].exists => Complete(files[dl[p].result.key]))
    /\ (\A p \in DOMAIN dl : dl[p].pc = "idle") =>
          \A k \in DOMAIN files : files[k].exists => hist.succeeded[k]

\* C10: with two calls for the same tile at the same time, a call that has
\* returned success has a cache path with a file that holds the whole body
\* of a successful response, at its return and from then on.
C10_SuccessMeansCompleteFile ==
    \A p \in DOMAIN dl :
       dl[p].result.kind \in Successes => Complete(files[dl[p].result.key])

\* C11 as stated: a call of get that finds a file at the cache path that
\* does not hold a whole tile (empty or partly written) does not return it
\* as a hit but sends a request.
C11_UnreadableEntryRefetched ==
    \A p \in DOMAIN dl :
       LET r == dl[p].result
       IN  (r.kind # "none" /\ r.found.exists /\ ~Complete(r.found)) =>
              (r.kind # "OkHit" /\ r.requested)

\* C11 as amended: a call of get returns a cache hit exactly when it finds a
\* file at the cache path, whatever the file holds; a hit sends no request
\* and leaves the file as it found it.
C11_ExistingEntryIsHit ==
    \A p \in DOMAIN dl :
       LET r == dl[p].result
       IN  r.kind # "none" =>
              /\ r.found.exists <=> r.kind = "OkHit"
              /\ r.kind = "OkHit" => (~r.requested /\ files[r.key] = r.found)

\* C11, its case: a call found an empty or partly written file and returned
\* it as a hit, and no request was sent after the one that left the file.
C11_Witness ==
    \E p \in DOMAIN dl :
       /\ dl[p].result.kind = "OkHit"
       /\ ~Complete(dl[p].result.found)
       /\ hist.requests[dl[p].result.key] = 1

----------------------------------------------------------------------------
(* osmbase.rs: Basemap::draw, and the end of main *)

\* The canvas is at most MaxTiles tiles wide and high.
MaxTiles == 2

\* Where the left or top edge of the viewport lies inside its tile, in
\* pixels.
EdgeOffsets == {0, 100, TILE_SIZE - 1}

\* --width, --height
DrawSizes ==
    {k * TILE_SIZE : k \in 1 .. MaxTiles} \cup {k * TILE_SIZE - 212 : k \in 1 .. MaxTiles}

\* Basemap::from for a viewport whose left and top edges lie `left` and
\* `top` pixels inside the tile of its top left corner, in exact arithmetic
\* and with every tile as high in degrees as the one of the center.
\* (outer_x, outer_y) is the tile of (lon_max, lat_max), the top right
\* corner: offset_x is measured at the right edge, offset_y at the top edge.
\* nx and ny are the lengths of the ranges map_tl.0 ..= map_br.0 and
\* map_tl.1 ..= map_br.1 of draw.
BasemapFrom(left, top, width, height) ==
    [width    |-> width,
     height   |-> height,
     offset_x |-> (left + width) % TILE_SIZE,
     offset_y |-> top % TILE_SIZE,
     nx       |-> (left + width) \div TILE_SIZE + 1,
     ny       |-> (top + height) \div TILE_SIZE + 1]

\* for i in map_tl.0..=map_br.0 { for j in map_tl.1..=map_br.1 {..} }, as
\* the indices relative to map_tl
TileRange(nx, ny) ==
    [k \in 1 .. nx * ny |-> Pt((k - 1) \div ny, (k - 1) % ny)]

\* imageops::crop_imm on a tile of TILE_SIZE x TILE_SIZE pixels: the
\* rectangle asked for, cut to the tile.
crop_imm(x, y, width, height) ==
    [x      |-> MinOf(x, TILE_SIZE),
     y      |-> MinOf(y, TILE_SIZE),
     width  |-> MinOf(width, TILE_SIZE - MinOf(x, TILE_SIZE)),
     height |-> MinOf(height, TILE_SIZE - MinOf(y, TILE_SIZE))]

\* osmbase.rs:157-190: the position and the crop of tile (i, j). The u32
\* subtractions of line 160 and 161 come before the tests of i and j; a
\* build with overflow checks panics there when they underflow (ok = FALSE),
\* a build without them goes on with the wrapped value.
DrawPlace(b, i, j, chk) ==
    LET x     == U32WrappingSub(i * TILE_SIZE, b.offset_x)
        y     == U32WrappingSub(j * TILE_SIZE, b.offset_y)
        under == (i * TILE_SIZE < b.offset_x) \/ (j * TILE_SIZE < b.offset_y)
    IN  IF under /\ chk
        THEN [ok |-> FALSE, under |-> under]
        ELSE [ok    |-> TRUE,
              under |-> under,
              x     |-> IF i = 0 THEN 0 ELSE x,
              y     |-> IF j = 0 THEN 0 ELSE y,
              tile  |-> IF i = 0 /\ j = 0
                        THEN crop_imm(b.offset_x, 0,
                                      TILE_SIZE - b.offset_x, TILE_SIZE - b.offset_y)
                        ELSE IF i = 0
                        THEN crop_imm(b.offset_x, 0, TILE_SIZE - b.offset_x, TILE_SIZE)
                        ELSE IF j = 0
                        THEN crop_imm(0, b.offset_y, TILE_SIZE, TILE_SIZE - b.offset_y)
                        ELSE crop_imm(0, 0, TILE_SIZE, TILE_SIZE)]

\* What getter.get and image::open bring for a tile: a tile image, an error
\* of get, or a path whose file image::open cannot read.
GetResults == {"ok", "err", "unreadable"}

\* A mutant: draw goes on after an error.
DrawAfterIgnores(res) == "draw"

\* `?` on get and on image::open: an error ends draw, and main with it.
DrawAfter(res) == IF res = "ok" THEN "draw" ELSE "err"

DrawInit ==
    /\ \E left \in EdgeOffsets, top \in EdgeOffsets :
       \E width \in DrawSizes, height \in DrawSizes :
          LET b == BasemapFrom(left, top, width, height)
          IN  pipe = [pc      |-> "draw",
                      basemap |-> b,
                      todo    |-> TileRange(b.nx, b.ny),
                      steps   |-> <<>>,
                      output  |-> "none"]
    /\ heat = Unset
    /\ panicked = FALSE
    /\ checks \in BOOLEAN
    /\ last = Unset
    /\ adds = 0
    /\ decays = 0
    /\ ProjIdle
    /\ CacheIdle

\* One turn of the loop of draw, osmbase.rs:155-191.
DrawTile ==
    /\ pipe.pc = "draw" /\ ~panicked
    /\ pipe.todo # <<>>
    /\ \E res \in GetResults :
          LET t == Head(pipe.todo)
              g == DrawPlace(pipe.basemap, t.x, t.y, checks)
          IN  IF res # "ok"
              THEN /\ pipe' = [pipe EXCEPT
                                 !.pc = DrawAfter(res),
                                 !.steps = Append(pipe.steps,
                                              [tile |-> t, get |-> res, placed |-> FALSE,
                                               under |-> FALSE])]
                   /\ UNCHANGED panicked
              ELSE IF ~g.ok
              THEN /\ pipe' = [pipe EXCEPT
                                 !.steps = Append(pipe.steps,
                                              [tile |-> t, get |-> res, placed |-> FALSE,
                                               under |-> TRUE])]
                   /\ panicked' = TRUE
              ELSE /\ pipe' = [pipe EXCEPT
                                 !.todo = Tail(pipe.todo),
                                 !.steps = Append(pipe.steps,
                                              [tile |-> t, get |-> res, placed |-> TRUE,
                                               under |-> g.under,
                                               crop |-> g.tile, at |-> Pt(g.x, g.y)])]
                   /\ UNCHANGED panicked
    /\ UNCHANGED <<heat, checks, last, adds, decays, projVars, cacheVars>>

\* main.rs:366-375: draw has returned Ok; the grid is laid over the base
\* map and the image is saved, which can fail on the way.
DrawSave ==
    /\ pipe.pc = "draw" /\ ~panicked
    /\ pipe.todo = <<>>
    /\ \E saved \in BOOLEAN :
          pipe' = [pipe EXCEPT !.pc = IF saved THEN "saved" ELSE "err",
                               !.output = IF saved THEN "saved" ELSE "partial"]
    /\ UNCHANGED <<gridVars, projVars, cacheVars>>

DrawNext ==
    \/ DrawTile
    \/ DrawSave

SpecDraw == DrawInit /\ [][DrawNext]_vars

\* The turns of the loop of draw so far that put a tile on the canvas.
Placed == {k \in DOMAIN pipe.steps : pipe.steps[k].placed}

\* C15: a tile whose get (or image::open) fails is the last one draw asks
\* for: no tile is asked for again or after it, draw and main return the
\* error, and no output file is written. An output file is written only
\* after every tile of the range was obtained and put on the canvas, each
\* once, in the order of the loop; a run that panics writes none either.
C15_FailedTileAbortsRun ==
    /\ \A k \in DOMAIN pipe.steps :
          pipe.steps[k].get # "ok" =>
             (k = Len(pipe.steps) /\ pipe.pc = "err" /\ pipe.output = "none")
    /\ \A k, l \in DOMAIN pipe.steps :
          k # l => pipe.steps[k].tile # pipe.steps[l].tile
    /\ pipe.output # "none" =>
          /\ ~panicked
          /\ Len(pipe.steps) = pipe.basemap.nx * pipe.basemap.ny
          /\ \A k \in DOMAIN pipe.steps :
                /\ pipe.steps[k].get = "ok" /\ pipe.steps[k].placed
                /\ pipe.steps[k].tile = TileRange(pipe.basemap.nx, pipe.basemap.ny)[k]
    /\ panicked => pipe.output = "none"

\* C15, its case: the second tile of a range of four failed after the first
\* was put on the canvas; the run is over with the error and without output.
C15_Witness ==
    /\ Len(pipe.steps) = 2
    /\ pipe.steps[1].placed
    /\ pipe.steps[2].get = "err"
    /\ Len(pipe.todo) = 3
    /\ pipe.pc = "err" /\ pipe.output = "none"

\* The part of the canvas that turn k of the loop writes: overlay cuts the
\* tile to the canvas.
Region(k) ==
    LET st == pipe.steps[k]
    IN  [x1 |-> st.at.x, x2 |-> MinOf(st.at.x + st.crop.width, pipe.basemap.width),
         y1 |-> st.at.y, y2 |-> MinOf(st.at.y + st.crop.height, pipe.basemap.height)]

Disjoint(r, q) ==
    \/ r.x1 >= r.x2 \/ r.y1 >= r.y2
    \/ q.x1 >= q.x2 \/ q.y1 >= q.y2
    \/ r.x2 <= q.x1 \/ q.x2 <= r.x1
    \/ r.y2 <= q.y1 \/ q.y2 <= r.y1

\* C18: the crop of a tile starts at offset_x in the first column and at 0
\* elsewhere, at offset_y in the first row and at 0 elsewhere, so at
\* (offset_x, offset_y) for the top left tile; tile (i, j) is laid at
\* (max(0, i * TILE_SIZE - offset_x), max(0, j * TILE_SIZE - offset_y)); and
\* no two tiles write the same pixel of the canvas.
C18_TilesCroppedAndPlaced ==
    /\ \A k \in Placed :
          LET st == pipe.steps[k]
              b  == pipe.basemap
          IN  /\ st.crop.x = (IF st.tile.x = 0 THEN b.offset_x ELSE 0)
              /\ st.crop.y = (IF st.tile.y = 0 THEN b.offset_y ELSE 0)
              /\ st.at = Pt(MaxOf(0, st.tile.x * TILE_SIZE - b.offset_x),
                            MaxOf(0, st.tile.y * TILE_SIZE - b.offset_y))
    /\ \A k, l \in Placed : k # l => Disjoint(Region(k), Region(l))

\* C20: no subtraction of draw underflows: i * TILE_SIZE - offset_x and
\* j * TILE_SIZE - offset_y do not for any tile of the range, and neither do
\* the crop sizes TILE_SIZE - offset_x and TILE_SIZE - offset_y; draw never
\* panics.
C20_NoUnderflowInDraw ==
    /\ \A k \in DOMAIN pipe.steps : ~pipe.steps[k].under
    /\ ~panicked
    /\ pipe.basemap.offset_x <= TILE_SIZE /\ pipe.basemap.offset_y <= TILE_SIZE

====
